---- MODULE Spec2Model ----
(***************************************************************************)
(* Model of MainWindow (src/app/mainwindow.cpp): the station search, the   *)
(* station-detail fan-out/fan-in over asynchronous replies, and the search *)
(* history kept in history.json.                                           *)
(*                                                                         *)
(* Representation.                                                         *)
(*  - A QString is the sequence of its space-separated words, so that      *)
(*    isEmpty, contains(" ") and split(" ") are computed, not looked up:   *)
(*    "" is <<>>, "Zielona Góra" is <<"Zielona", "Góra">>.                  *)
(*  - A double holding a coordinate is an integer number of 1e-5 degrees;  *)
(*    a double holding a distance is an integer number of metres.          *)
(*  - A QVariantMap is a function whose domain is its set of keys.         *)
(*  - A QJsonValue is a tagged record: [null], [num], [str], [obj], [arr]. *)
(***************************************************************************)
EXTENDS Integers, Sequences, FiniteSets, Bags, TLC

VARIABLES
    m_result,           \* QString: outcome message, and the stored query of a search
    m_stations,         \* QVariantList of station maps
    m_userLocation,     \* QVariantMap: empty or {lat, lon}
    m_userAddress,      \* QString
    m_stationDetails,   \* QVariantMap: the single shared detail record
    m_history,          \* QVariantList: in-memory history
    m_isFromHistory,    \* bool
    m_pendingRequests,  \* QMap<int,int>
    file,               \* history.json: [exists, content]
    network,            \* bag of the requests whose reply has not been delivered
    signals,            \* the Qt signals emitted by the last step, in order
    last,               \* the last step: [op, id, ok]
    sent,               \* number of requests issued so far, per endpoint
    log,                \* journal of the searches and of the catalogue replies
    failures,           \* number of replies that were transport failures so far
    clock,              \* QDateTime::currentDateTime(), in seconds
    returned            \* the last call that returned a value: [of, arg, value]

vars == <<m_result, m_stations, m_userLocation, m_userAddress, m_stationDetails,
          m_history, m_isFromHistory, m_pendingRequests, file, network, signals,
          last, sent, log, failures, clock, returned>>

-----------------------------------------------------------------------------
(* Bounds of the model.                                                    *)

MaxSearches == 2

MaxFetches == 2

MaxHistory == 2

MaxFailures == 1

\* longest history getStationsForCity is asked about
MaxEntries == 3

-----------------------------------------------------------------------------
(* QVariantMap and QString helpers.                                        *)

EmptyMap == [k \in {} |-> 0]

\* QVariantMap::operator[] used as an lvalue: m[k] = v
Put(m, k, v) == [q \in (DOMAIN m) \cup {k} |-> IF q = k THEN v ELSE m[q]]

\* QVariant::toInt() of m[k]; an absent key reads as an invalid QVariant, 0
GetInt(m, k) == IF k \in DOMAIN m THEN m[k] ELSE 0

\* QVariant::toString() of m[k]; an absent key reads as ""
GetStr(m, k) == IF k \in DOMAIN m THEN m[k] ELSE <<>>

\* QVariant::toBool() of m[k]
GetBool(m, k) == IF k \in DOMAIN m THEN m[k] ELSE FALSE

\* the invalid QVariant that a non-const operator[] inserts for an absent key
Invalid == [invalid |-> TRUE]

\* a QVariant holding a QVariantList
QList(s) == [list |-> s]

\* QVariant::toList() of m[k]: the empty list unless m[k] holds a list
ToList(m, k) == IF k \in DOMAIN m /\ "list" \in DOMAIN m[k] THEN m[k].list ELSE <<>>

\* m[k] read through the non-const operator[]: an absent key is inserted
\* with an invalid QVariant
Touch(m, k) == IF k \in DOMAIN m THEN m ELSE Put(m, k, Invalid)

\* QString::contains(" ")
containsSpace(s) == Len(s) >= 2

\* s + suffix, the suffix glued to the last word
AppendSuffix(s, suffix) ==
    IF s = <<>> THEN <<suffix>>
    ELSE [s EXCEPT ![Len(s)] = s[Len(s)] \o suffix]

-----------------------------------------------------------------------------
(* QJsonValue.                                                             *)

JNull == [null |-> TRUE]
JNum(n) == [num |-> n]
JStr(s) == [str |-> s]
JObj(o) == [obj |-> o]

\* obj[key] on a non-const QJsonObject: an absent key yields Null
JGet(o, k) == IF k \in DOMAIN o THEN o[k] ELSE JNull

isNull(j) == "null" \in DOMAIN j
toInt(j) == IF "num" \in DOMAIN j THEN j.num ELSE 0
toString(j) == IF "str" \in DOMAIN j THEN j.str ELSE <<>>
toObject(j) == IF "obj" \in DOMAIN j THEN j.obj ELSE EmptyMap

-----------------------------------------------------------------------------
(* Decimal strings and doubles.                                            *)

Digit(d) == CASE d = 0 -> "0" [] d = 1 -> "1" [] d = 2 -> "2" [] d = 3 -> "3"
              [] d = 4 -> "4" [] d = 5 -> "5" [] d = 6 -> "6" [] d = 7 -> "7"
              [] d = 8 -> "8" [] d = 9 -> "9"

RECURSIVE IntStr(_)
IntStr(n) == IF n < 10 THEN Digit(n) ELSE IntStr(n \div 10) \o Digit(n % 10)

\* the k digits of n, leading zeros kept
RECURSIVE Digits(_, _)
Digits(n, k) == IF k = 0 THEN "" ELSE Digits(n \div 10, k - 1) \o Digit(n % 10)

\* the fraction f of k digits with its trailing zeros removed
RECURSIVE Frac(_, _)
Frac(f, k) == IF f = 0 THEN ""
              ELSE IF f % 10 = 0 THEN Frac(f \div 10, k - 1)
              ELSE Digits(f, k)

\* the shortest decimal string of a coordinate v (1e-5 degrees, v >= 0)
Dec(v) == IF v % 100000 = 0 THEN IntStr(v \div 100000)
          ELSE IntStr(v \div 100000) \o "." \o Frac(v % 100000, 5)

\* a coordinate rounded to 6 significant digits
Round6(v) == LET u == IF v < 1000000 THEN 1 ELSE IF v < 10000000 THEN 10 ELSE 100
             IN  ((v + (u \div 2)) \div u) * u

\* QString::arg(double): format 'g', precision 6
FormatG(v) == Dec(Round6(v))

-----------------------------------------------------------------------------
(* The world outside the program: the GIOS API's data and the geocoder.    *)

\* the places of the model: coordinates in 1e-5 degrees. Rynek is what the
\* geocoder answers for the Krakow address, with more than 6 significant digits
Places ==
    [ Warszawa    |-> [lat |-> 5222970, lon |-> 2101220],
      Krakow      |-> [lat |-> 5006470, lon |-> 1994500],
      Ursynow     |-> [lat |-> 5221920, lon |-> 2100470],
      ZielonaGora |-> [lat |-> 5193990, lon |-> 1551890],
      Rynek       |-> [lat |-> 5006143, lon |-> 1993658] ]

\* every double the model's strings can denote
Doubles == {0, Places.Warszawa.lat, Places.Warszawa.lon, Places.Krakow.lat, Places.Krakow.lon, Places.Ursynow.lat,
            Places.Ursynow.lon, Places.ZielonaGora.lat, Places.ZielonaGora.lon, Places.Rynek.lat, Places.Rynek.lon,
            Round6(Places.Rynek.lat), Round6(Places.Rynek.lon)}

\* the decimal string of every double of the model
Decimals == {<<Dec(v), v>> : v \in Doubles}

\* QString::toDouble(&ok): the double a decimal string denotes; 0 and
\* ok = false for anything else
toDouble(s) ==
    IF Len(s) = 1 /\ \E d \in Decimals : d[1] = s[1]
    THEN [ok |-> TRUE, v |-> (CHOOSE d \in Decimals : d[1] = s[1])[2]]
    ELSE [ok |-> FALSE, v |-> 0]

Commune(c, d, p) ==
    JObj([communeName |-> JStr(c), districtName |-> JStr(d), provinceName |-> JStr(p)])

\* one record of station/findAll
RawStation(id, name, lat, lon, city, commune) ==
    JObj([id |-> id, stationName |-> JStr(name), gegrLat |-> lat, gegrLon |-> lon,
          city |-> JObj([name |-> JStr(city), commune |-> commune]),
          addressStreet |-> JNull])

\* a reply of station/findAll: four stations, and two records to be dropped
CatalogFull ==
    << RawStation(JNum(1), <<"Warszawa-Komunikacyjna">>, JStr(<<Dec(Places.Warszawa.lat)>>),
                  JStr(<<Dec(Places.Warszawa.lon)>>), <<"Warszawa">>,
                  Commune(<<"Warszawa">>, <<"Warszawa">>, <<"MAZOWIECKIE">>)),
       RawStation(JNum(5), <<"Bez", "szerokosci">>, JNull,
                  JStr(<<Dec(Places.Krakow.lon)>>), <<"Warszawa">>, JNull),
       RawStation(JNum(2), <<"Krakow,", "Aleja", "Krasinskiego">>, JStr(<<Dec(Places.Krakow.lat)>>),
                  JStr(<<Dec(Places.Krakow.lon)>>), <<"Krakow">>,
                  Commune(<<"Krakow">>, <<"Krakow">>, <<"MALOPOLSKIE">>)),
       RawStation(JNum(3), <<"Warszawa-Ursynow">>, JStr(<<Dec(Places.Ursynow.lat)>>),
                  JStr(<<Dec(Places.Ursynow.lon)>>), <<"Warszawa">>,
                  Commune(<<"Warszawa">>, <<"Warszawa">>, <<"MAZOWIECKIE">>)),
       RawStation(JNum(6), <<"Zla", "szerokosc">>, JStr(<<"abc">>),
                  JStr(<<Dec(Places.Krakow.lon)>>), <<"Krakow">>, JNull),
       RawStation(JNum(4), <<"Zielona", "Gora-Krotka">>, JStr(<<Dec(Places.ZielonaGora.lat)>>),
                  JStr(<<Dec(Places.ZielonaGora.lon)>>), <<"Zielona", "Gora">>, JNull) >>

\* a reply of station/findAll without one valid record
CatalogBad ==
    << RawStation(JNull, <<"Bez", "id">>, JStr(<<Dec(Places.Warszawa.lat)>>),
                  JStr(<<Dec(Places.Warszawa.lon)>>), <<"Warszawa">>, JNull),
       RawStation(JNum(7), <<"Zla", "dlugosc">>, JStr(<<Dec(Places.Krakow.lat)>>),
                  JStr(<<"19,945">>), <<"Krakow">>, JNull),
       JObj([id |-> JNum(8), stationName |-> JStr(<<"Bez", "pola", "gegrLat">>),
             gegrLon |-> JStr(<<Dec(Places.Krakow.lon)>>)]),
       RawStation(JNum(9), <<"Liczba">>, JNum(Places.Krakow.lat),
                  JStr(<<Dec(Places.Krakow.lon)>>), <<"Krakow">>, JNull) >>

\* the bodies a station/findAll reply may carry
Catalogs == <<CatalogFull, CatalogBad>>

\* the station ids openDetails is called with
StationIds == {1, 2, 3, 4, 5}

\* the station ids of the overlapping detail fetches: both stations have a
\* PM10 sensor, station 1 has a NO2 sensor as well
OverlapIds == {1, 2}

RawSensor(id, name, formula) ==
    JObj([id |-> JNum(id),
          param |-> JObj([paramName |-> JStr(name), paramFormula |-> JStr(formula)])])

\* the reply of station/sensors/<stationId>
SensorsOf(stationId) ==
    CASE stationId = 1 -> << RawSensor(11, <<"pyl", "zawieszony", "PM10">>, <<"PM10">>),
                             RawSensor(12, <<"dwutlenek", "azotu">>, <<"NO2">>) >>
      [] stationId = 2 -> << RawSensor(21, <<"pyl", "zawieszony", "PM10">>, <<"PM10">>) >>
      [] stationId = 3 -> << RawSensor(31, <<"pyl", "zawieszony", "PM10">>, <<"PM10">>),
                             RawSensor(32, <<"pyl", "zawieszony", "PM10">>, <<"PM10">>) >>
      [] stationId = 4 -> << RawSensor(41, <<"pyl", "zawieszony", "PM10">>, <<"PM10">>),
                             RawSensor(42, <<"dwutlenek", "azotu">>, <<"NO2">>),
                             RawSensor(43, <<"ozon">>, <<"O3">>) >>
      [] OTHER -> << >>

\* every sensor of the server: <<sensor id, station id, paramFormula>>
SensorIndex ==
    UNION { { << toInt(JGet(toObject(SensorsOf(s)[i]), "id")), s,
                 toString(JGet(toObject(JGet(toObject(SensorsOf(s)[i]), "param")),
                               "paramFormula")) >> : i \in DOMAIN SensorsOf(s) }
            : s \in StationIds }

\* the station a sensor id belongs to, 0 if none
StationOfSensor(sensorId) ==
    IF \E p \in SensorIndex : p[1] = sensorId
    THEN (CHOOSE p \in SensorIndex : p[1] = sensorId)[2]
    ELSE 0

\* the paramFormula of a sensor id on the server
FormulaOfSensor(sensorId) == (CHOOSE p \in SensorIndex : p[1] = sensorId)[3]

RawValue(date, value) == JObj([date |-> JStr(date), value |-> value])

\* the reply of data/getData/<sensorId>: the key is the sensor's formula;
\* the readings are three, the middle one null, the first the sensor's id
DataOf(sensorId) ==
    JObj([key |-> JStr(FormulaOfSensor(sensorId)),
          values |-> [arr |-> << RawValue(<<"2025-04-20", "12:00:00">>, JNum(sensorId)),
                                 RawValue(<<"2025-04-20", "11:00:00">>, JNull),
                                 RawValue(<<"2025-04-20", "10:00:00">>, JNum(7)) >>]])

\* the reply of aqindex/getIndex/<stationId>
IndexOf(stationId) ==
    JObj([stCalcDate |-> JStr(<<"2025-04-20", "12:20:00">>),
          stIndexLevel |-> JObj([id |-> JNum(stationId % 3),
                                 indexLevelName |-> JStr(<<"Poziom", IntStr(stationId % 3)>>)])])

\* the addresses searchNearest is called with
Addresses == { <<"Warszawa", "Marszalkowska", "1">>, <<"Krakow", "Rynek", "1">> }

\* the object the geocoder holds for an address
GeoObject(location) ==
    IF location[1] = "Warszawa"
    THEN JObj([lat |-> JStr(<<Dec(Places.Warszawa.lat)>>), lon |-> JStr(<<Dec(Places.Warszawa.lon)>>)])
    ELSE JObj([lat |-> JStr(<<Dec(Places.Rynek.lat)>>), lon |-> JStr(<<Dec(Places.Rynek.lon)>>)])

\* the replies the geocoder may give: an error, no result, one result
GeoReplies(location) ==
    { [ok |-> FALSE, data |-> << >>], [ok |-> TRUE, data |-> << >>],
      [ok |-> TRUE, data |-> << GeoObject(location) >>] }

\* the city names searchByCity is called with
Cities == { <<"Warszawa">>, <<"Poznan">>, <<"Zielona", "Gora">> }

-----------------------------------------------------------------------------
(* calculateDistance.                                                      *)

\* std::numeric_limits<double>::max(), as a distance in metres
DBL_MAX == 2000000000

\* The haversine distance R * 2 * atan2(sqrt(a), sqrt(1 - a)), R = 6371 km,
\* evaluated in IEEE doubles on the coordinates of the model and rounded to
\* metres: <<lat1, lon1, lat2, lon2, metres>>. The points are the four
\* stations, the geocoded Rynek, the Rynek as "%1 %2" prints it, (0, 0) and a
\* point of the southern hemisphere.
DistanceTable ==
    {
      <<5222970, 2101220, 5222970, 2101220, 0>>, <<5222970, 2101220, 5006470, 1994500, 251977>>,
      <<5222970, 2101220, 5221920, 2100470, 1274>>, <<5222970, 2101220, 5193990, 1551890, 376639>>,
      <<5222970, 2101220, 5006143, 1993658, 252499>>, <<5222970, 2101220, 5006140, 1993660, 252501>>,
      <<5222970, 2101220, 0, 0, 6129769>>, <<5222970, 2101220, (0 - 3386880), 15120930, 15594306>>,
      <<5006470, 1994500, 5222970, 2101220, 251977>>, <<5006470, 1994500, 5006470, 1994500, 0>>,
      <<5006470, 1994500, 5221920, 2100470, 250709>>, <<5006470, 1994500, 5193990, 1551890, 373258>>,
      <<5006470, 1994500, 5006143, 1993658, 702>>, <<5006470, 1994500, 5006140, 1993660, 703>>,
      <<5006470, 1994500, 0, 0, 5880518>>, <<5006470, 1994500, (0 - 3386880), 15120930, 15695720>>,
      <<5221920, 2100470, 5222970, 2101220, 1274>>, <<5221920, 2100470, 5006470, 1994500, 250709>>,
      <<5221920, 2100470, 5221920, 2100470, 0>>, <<5221920, 2100470, 5193990, 1551890, 376075>>,
      <<5221920, 2100470, 5006143, 1993658, 251231>>, <<5221920, 2100470, 5006140, 1993660, 251234>>,
      <<5221920, 2100470, 0, 0, 6128496>>, <<5221920, 2100470, (0 - 3386880), 15120930, 15594962>>,
      <<5193990, 1551890, 5222970, 2101220, 376639>>, <<5193990, 1551890, 5006470, 1994500, 373258>>,
      <<5193990, 1551890, 5221920, 2100470, 376075>>, <<5193990, 1551890, 5193990, 1551890, 0>>,
      <<5193990, 1551890, 5006143, 1993658, 372983>>, <<5193990, 1551890, 5006140, 1993660, 372986>>,
      <<5193990, 1551890, 0, 0, 5955352>>, <<5193990, 1551890, (0 - 3386880), 15120930, 15969605>>,
      <<5006143, 1993658, 5222970, 2101220, 252499>>, <<5006143, 1993658, 5006470, 1994500, 702>>,
      <<5006143, 1993658, 5221920, 2100470, 251231>>, <<5006143, 1993658, 5193990, 1551890, 372983>>,
      <<5006143, 1993658, 5006143, 1993658, 0>>, <<5006143, 1993658, 5006140, 1993660, 4>>,
      <<5006143, 1993658, 0, 0, 5879932>>, <<5006143, 1993658, (0 - 3386880), 15120930, 15696354>>,
      <<5006140, 1993660, 5222970, 2101220, 252501>>, <<5006140, 1993660, 5006470, 1994500, 703>>,
      <<5006140, 1993660, 5221920, 2100470, 251234>>, <<5006140, 1993660, 5193990, 1551890, 372986>>,
      <<5006140, 1993660, 5006143, 1993658, 4>>, <<5006140, 1993660, 5006140, 1993660, 0>>,
      <<5006140, 1993660, 0, 0, 5879930>>, <<5006140, 1993660, (0 - 3386880), 15120930, 15696353>>,
      <<0, 0, 5222970, 2101220, 6129769>>, <<0, 0, 5006470, 1994500, 5880518>>,
      <<0, 0, 5221920, 2100470, 6128496>>, <<0, 0, 5193990, 1551890, 5955352>>,
      <<0, 0, 5006143, 1993658, 5879932>>, <<0, 0, 5006140, 1993660, 5879930>>,
      <<0, 0, 0, 0, 0>>, <<0, 0, (0 - 3386880), 15120930, 15199450>>,
      <<(0 - 3386880), 15120930, 5222970, 2101220, 15594306>>, <<(0 - 3386880), 15120930, 5006470, 1994500, 15695720>>,
      <<(0 - 3386880), 15120930, 5221920, 2100470, 15594962>>, <<(0 - 3386880), 15120930, 5193990, 1551890, 15969605>>,
      <<(0 - 3386880), 15120930, 5006143, 1993658, 15696354>>, <<(0 - 3386880), 15120930, 5006140, 1993660, 15696353>>,
      <<(0 - 3386880), 15120930, 0, 0, 15199450>>, <<(0 - 3386880), 15120930, (0 - 3386880), 15120930, 0>>
    }

\* the distance with the radius of the Earth taken in miles
calculateDistanceInMiles(lat1, lon1, lat2, lon2) ==
    ((CHOOSE t \in DistanceTable :
        t[1] = lat1 /\ t[2] = lon1 /\ t[3] = lat2 /\ t[4] = lon2)[5] \div 6371) * 3959

calculateDistance(lat1, lon1, lat2, lon2) ==
    (CHOOSE t \in DistanceTable :
        t[1] = lat1 /\ t[2] = lon1 /\ t[3] = lat2 /\ t[4] = lon2)[5]

\* QString::arg(double, 0, 'f', 2) of a distance in km
Fixed2(metres) ==
    IF metres = DBL_MAX THEN "1.79769e+308"
    ELSE LET h == (metres + 5) \div 10
         IN  IntStr(h \div 100) \o "." \o Digits(h % 100, 2)

-----------------------------------------------------------------------------
(* Requests, signals and the journal.                                      *)

\* a request handed to manager->get(): the endpoint, the id in its URL,
\* whether errorOccurred is connected to a lambda, and for station/findAll
\* the query stored by the search that issued it
Request(kind, arg, watched, query) ==
    [kind |-> kind, arg |-> arg, watched |-> watched, query |-> query]

Step(op, id, ok) == [op |-> op, id |-> id, ok |-> ok]

\* a journal entry: a search (its input, the query it stored, whether it issued
\* a request) or a catalogue reply (the query of its request, its outcome
\* and which body it carried)
Entry(op, input, query, issued, ok, body) ==
    [op |-> op, input |-> input, query |-> query, issued |-> issued, ok |-> ok,
     body |-> body]

\* the lambda connected to a reply's errorOccurred: it runs before the
\* manager's finished handler when the request fails
errorOccurred(req) == IF req.watched THEN <<"networkError">> ELSE << >>

InFlight(kind) == {r \in BagToSet(network) : r.kind = kind}

Searches == {i \in DOMAIN log : log[i].op # "processStationsReply"}

-----------------------------------------------------------------------------
(* The three searches.                                                     *)

fetchAllStations ==
    /\ m_userLocation' = EmptyMap
    /\ m_userAddress' = << >>
    /\ m_result' = << >>
    /\ m_isFromHistory' = FALSE
    /\ network' = network (+) SetToBag({Request("stations", 0, TRUE, << >>)})
    /\ sent' = [sent EXCEPT !.stations = @ + 1]
    /\ signals' = <<"userLocationChanged", "userAddressChanged", "resultChanged",
                    "isFromHistoryChanged">>
    /\ last' = Step("fetchAllStations", 0, TRUE)
    /\ log' = Append(log, Entry("fetchAllStations", << >>, << >>, TRUE, TRUE, 0))
    /\ UNCHANGED <<returned, m_stations, m_stationDetails, m_history, m_pendingRequests, file, failures, clock>>

fetchStationsByCity(city) ==
    /\ m_userLocation' = EmptyMap
    /\ m_userAddress' = << >>
    /\ m_result' = city
    /\ m_isFromHistory' = FALSE
    /\ network' = network (+) SetToBag({Request("stations", 0, TRUE, city)})
    /\ sent' = [sent EXCEPT !.stations = @ + 1]
    /\ signals' = <<"userLocationChanged", "userAddressChanged", "resultChanged",
                    "isFromHistoryChanged">>
    /\ last' = Step("fetchStationsByCity", 0, TRUE)
    /\ log' = Append(log, Entry("fetchStationsByCity", city, city, TRUE, TRUE, 0))
    /\ UNCHANGED <<returned, m_stations, m_stationDetails, m_history, m_pendingRequests, file, failures, clock>>

\* QGeoCoordinate(lat, lon): valid when both are in range
QGeoCoordinate(lat, lon) ==
    [valid |-> lat >= -9000000 /\ lat <= 9000000 /\ lon >= -18000000 /\ lon <= 18000000,
     lat |-> lat, lon |-> lon]

\* getLocationCoords, given the geocoder's reply to the blocking request
getLocationCoords(reply) ==
    IF reply.ok /\ reply.data # << >>
    THEN LET obj == toObject(reply.data[1])
         IN  QGeoCoordinate(toDouble(toString(JGet(obj, "lat"))).v,
                            toDouble(toString(JGet(obj, "lon"))).v)
    ELSE [valid |-> FALSE, lat |-> 0, lon |-> 0]

LocationNotFound(location) == <<"Nie", "znaleziono", "lokalizacji:">> \o location

fetchNearestStation(location, reply) ==
    LET coords == getLocationCoords(reply)
        query  == <<FormatG(coords.lat), FormatG(coords.lon)>>
    IN  IF coords.valid
        THEN /\ m_userLocation' = Put(Put(m_userLocation, "lat", coords.lat), "lon", coords.lon)
             /\ m_userAddress' = location
             /\ m_result' = query
             /\ m_isFromHistory' = FALSE
             /\ network' = network (+) SetToBag({Request("stations", 0, TRUE, query)})
             /\ sent' = [sent EXCEPT !.stations = @ + 1]
             /\ signals' = <<"userLocationChanged", "userAddressChanged", "resultChanged",
                             "isFromHistoryChanged">>
             /\ last' = Step("fetchNearestStation", 0, TRUE)
             /\ log' = Append(log, Entry("fetchNearestStation", location, query, TRUE, TRUE, 0))
             /\ UNCHANGED <<returned, m_stations, m_stationDetails, m_history, m_pendingRequests,
                            file, failures, clock>>
        ELSE /\ m_result' = LocationNotFound(location)
             /\ signals' = <<"resultChanged", "networkError">>
             /\ last' = Step("fetchNearestStation", 0, FALSE)
             /\ log' = Append(log, Entry("fetchNearestStation", location, LocationNotFound(location), FALSE, FALSE, 0))
             /\ UNCHANGED <<returned, m_userLocation, m_userAddress, m_isFromHistory, network, sent,
                            m_stations, m_stationDetails, m_history, m_pendingRequests,
                            file, failures, clock>>

-----------------------------------------------------------------------------
(* processStationsReply.                                                   *)

\* the record checks without the one on the parsed longitude
ValidRecordLatOnly(obj) ==
    /\ ~isNull(JGet(obj, "id"))
    /\ ~isNull(JGet(obj, "gegrLat"))
    /\ ~isNull(JGet(obj, "gegrLon"))
    /\ toDouble(toString(JGet(obj, "gegrLat"))).ok

\* the record is kept: id, gegrLat, gegrLon not null and both parseable
ValidRecord(obj) ==
    /\ ~isNull(JGet(obj, "id"))
    /\ ~isNull(JGet(obj, "gegrLat"))
    /\ ~isNull(JGet(obj, "gegrLon"))
    /\ toDouble(toString(JGet(obj, "gegrLat"))).ok
    /\ toDouble(toString(JGet(obj, "gegrLon"))).ok

StationMap(obj) ==
    LET city    == toObject(JGet(obj, "city"))
        commune == toObject(JGet(city, "commune"))
    IN  [ id             |-> toInt(JGet(obj, "id")),
          name           |-> toString(JGet(obj, "stationName")),
          lat            |-> toDouble(toString(JGet(obj, "gegrLat"))).v,
          lon            |-> toDouble(toString(JGet(obj, "gegrLon"))).v,
          cityName       |-> toString(JGet(city, "name")),
          communeName    |-> toString(JGet(commune, "communeName")),
          districtName   |-> toString(JGet(commune, "districtName")),
          provinceName   |-> toString(JGet(commune, "provinceName")),
          addressStreet  |-> toString(JGet(obj, "addressStreet")),
          savedToHistory |-> FALSE ]

RECURSIVE ParseStations(_)
ParseStations(arr) ==
    IF arr = << >> THEN << >>
    ELSE LET obj == toObject(Head(arr))
         IN  (IF ValidRecord(obj) THEN <<StationMap(obj)>> ELSE << >>)
             \o ParseStations(Tail(arr))

CityMatches(map, city) == GetStr(map, "cityName") = city

FilterByCity(stations, city) == SelectSeq(stations, LAMBDA map : CityMatches(map, city))

NoStationsIn(city) == <<"Nie", "znaleziono", "stacji", "w", "miejscowosci">> \o city

\* the linear scan for the minimum, from station i on
RECURSIVE NearestScan(_, _, _, _, _)
NearestScan(stations, i, lat, lon, acc) ==
    IF i > Len(stations) THEN acc
    ELSE LET map  == stations[i]
             dist == calculateDistance(lat, lon, map.lat, map.lon)
         IN  NearestScan(stations, i + 1, lat, lon,
                         IF dist < acc.minDist
                         THEN [minDist |-> dist, closest |-> Put(map, "dist", dist)]
                         ELSE acc)

NearestMsg(closest, minDist) ==
    <<"Najblizsza", "stacja:">> \o AppendSuffix(GetStr(closest, "name"), ",")
        \o <<"Odleglosc:", Fixed2(minDist), "km">>

\* the mode filter of a successful reply: what m_stations and m_result become
SelectStations(result, stations) ==
    IF result = << >>
    THEN [stations |-> stations, result |-> result]
    ELSE IF ~containsSpace(result)
    THEN LET filtered == FilterByCity(stations, result)
         IN  [stations |-> filtered,
              result   |-> IF filtered = << >> THEN NoStationsIn(result) ELSE << >>]
    ELSE LET lat == toDouble(<<result[1]>>).v
             lon == toDouble(<<result[2]>>).v
             min == NearestScan(stations, 1, lat, lon,
                                [minDist |-> DBL_MAX, closest |-> EmptyMap])
         IN  [stations |-> <<min.closest>>,
              result   |-> NearestMsg(min.closest, min.minDist)]

NoConnection == <<"Brak", "polaczenia", "z", "internetem/baza", "danych">>

\* the error branch with the clear of the list moved into the success branch
StationsReplyErrorKeepsList(stations, result) ==
    [stations |-> stations, result |-> NoConnection]

\* the error branch: m_stations was cleared on entry
StationsReplyError(stations, result) ==
    [stations |-> << >>, result |-> NoConnection]

processStationsReply(req, ok, b) ==
    /\ req \in InFlight("stations")
    /\ network' = network (-) SetToBag({req})
    /\ IF ok
       THEN LET out == SelectStations(m_result, ParseStations(Catalogs[b]))
            IN  /\ m_stations' = out.stations
                /\ m_result' = out.result
                /\ signals' = <<"stationsChanged", "resultChanged">>
       ELSE LET out == StationsReplyError(m_stations, m_result)
            IN  /\ m_stations' = out.stations
                /\ m_result' = out.result
                /\ signals' = errorOccurred(req) \o <<"resultChanged", "networkError">>
    /\ failures' = IF ok THEN failures ELSE failures + 1
    /\ last' = Step("processStationsReply", b, ok)
    /\ log' = Append(log, Entry("processStationsReply", << >>, req.query, FALSE, ok, b))
    /\ UNCHANGED <<returned, m_userLocation, m_userAddress, m_isFromHistory, m_stationDetails,
                   m_history, m_pendingRequests, file, sent, clock>>

-----------------------------------------------------------------------------
(* The station-detail fetch.                                               *)

\* the counter started at the one request of the sensor list
StartPendingAtOne(pending, stationId) == Put(pending, stationId, 1)

\* m_pendingRequests[stationId] = 2
StartPending(pending, stationId) == Put(pending, stationId, 2)

fetchStationDetails(stationId) ==
    /\ m_stationDetails' = Put(EmptyMap, "stationId", stationId)
    /\ m_pendingRequests' = StartPending(m_pendingRequests, stationId)
    /\ network' = network (+) SetToBag({Request("sensors", stationId, TRUE, << >>)})
                          (+) SetToBag({Request("index", stationId, TRUE, << >>)})
    /\ sent' = [sent EXCEPT !.sensors = @ + 1, !.index = @ + 1]
    /\ signals' = << >>
    /\ last' = Step("fetchStationDetails", stationId, TRUE)
    /\ UNCHANGED <<returned, m_result, m_stations, m_userLocation, m_userAddress, m_history,
                   m_isFromHistory, file, log, failures, clock>>

SensorMap(obj) ==
    LET param == toObject(JGet(obj, "param"))
    IN  [ id           |-> toInt(JGet(obj, "id")),
          paramName    |-> toString(JGet(param, "paramName")),
          paramFormula |-> toString(JGet(param, "paramFormula")) ]

ParseSensors(arr) == [i \in 1..Len(arr) |-> SensorMap(toObject(arr[i]))]

\* one data/getData request per sensor of the list
RECURSIVE DataRequests(_)
DataRequests(sensorsList) ==
    IF sensorsList = << >> THEN EmptyBag
    ELSE SetToBag({Request("data", Head(sensorsList).id, FALSE, << >>)})
         (+) DataRequests(Tail(sensorsList))

\* the decrement for the sensor list alone, the increments per sensor left out
SensorsReplyPendingNoFanOut(pending, stationId, n) ==
    Put(pending, stationId, GetInt(pending, stationId) - 1)

\* one increment per sensor, then the decrement for the sensor list itself
SensorsReplyPending(pending, stationId, n) ==
    Put(pending, stationId, GetInt(pending, stationId) + n - 1)

\* the handler without its decrement
DecrementLeftOut(pending, stationId) == pending

\* m_pendingRequests[stationId]--
Decrement(pending, stationId) ==
    Put(pending, stationId, GetInt(pending, stationId) - 1)

\* the error branch with the decrement of the success branch moved after the
\* if, so that a failure counts as an answered request
SubReplyErrorCounted(details, pending) ==
    [details |-> details,
     pending |-> Put(pending, GetInt(details, "stationId"),
                     GetInt(pending, GetInt(details, "stationId")) - 1),
     signals |-> <<"networkError">>]

\* the error branch of processSensorsReply, processDataReply and
\* processIndexReply: the signal, and nothing else
SubReplyError(details, pending) ==
    [details |-> details, pending |-> pending, signals |-> <<"networkError">>]

processSensorsReply(req, ok) ==
    /\ req \in InFlight("sensors")
    /\ IF ok
       THEN LET sensorsList == ParseSensors(SensorsOf(req.arg))
                stationId   == GetInt(m_stationDetails, "stationId")
            IN  /\ m_stationDetails' = Put(m_stationDetails, "sensors", QList(sensorsList))
                /\ m_pendingRequests' =
                       SensorsReplyPending(m_pendingRequests, stationId, Len(sensorsList))
                /\ network' = (network (-) SetToBag({req})) (+) DataRequests(sensorsList)
                /\ sent' = [sent EXCEPT !.data = @ + Len(sensorsList)]
                /\ signals' = << >>
       ELSE LET out == SubReplyError(m_stationDetails, m_pendingRequests)
            IN  /\ m_stationDetails' = out.details
                /\ m_pendingRequests' = out.pending
                /\ network' = network (-) SetToBag({req})
                /\ sent' = sent
                /\ signals' = errorOccurred(req) \o out.signals
    /\ failures' = IF ok THEN failures ELSE failures + 1
    /\ last' = Step("processSensorsReply", req.arg, ok)
    /\ UNCHANGED <<returned, m_result, m_stations, m_userLocation, m_userAddress, m_history,
                   m_isFromHistory, file, log, clock>>

toArray(j) == IF "arr" \in DOMAIN j THEN j.arr ELSE << >>

\* every reading kept, a null value read as 0
MeasurementsWithNulls(values) ==
    [i \in 1..Len(values) |->
        [date  |-> toString(JGet(toObject(values[i]), "date")),
         value |-> toInt(JGet(toObject(values[i]), "value"))]]

\* the readings whose value is not null, in delivered order
RECURSIVE Measurements(_)
Measurements(values) ==
    IF values = << >> THEN << >>
    ELSE LET measurement == toObject(Head(values))
         IN  (IF ~isNull(JGet(measurement, "value"))
              THEN << [date  |-> toString(JGet(measurement, "date")),
                       value |-> toInt(JGet(measurement, "value"))] >>
              ELSE << >>)
             \o Measurements(Tail(values))

\* the first sensor from position i on whose paramFormula equals key gets the
\* measurements; the list is unchanged when there is none
RECURSIVE AttachMeasurements(_, _, _, _)
AttachMeasurements(sensors, i, key, measurements) ==
    IF i > Len(sensors) THEN sensors
    ELSE IF GetStr(sensors[i], "paramFormula") = key
    THEN [sensors EXCEPT ![i] = Put(sensors[i], "measurements", QList(measurements))]
    ELSE AttachMeasurements(sensors, i + 1, key, measurements)

\* the success branch telling of the change only once the counter of the
\* station has come down to 0
DataReplySuccessGated(details, pending, sensorId) ==
    LET obj          == toObject(DataOf(sensorId))
        key          == toString(JGet(obj, "key"))
        measurements == Measurements(toArray(JGet(obj, "values")))
        stationId    == GetInt(details, "stationId")
        sensors      == AttachMeasurements(ToList(details, "sensors"), 1, key, measurements)
    IN  [details |-> Put(details, "sensors", QList(sensors)),
         pending |-> Decrement(pending, stationId),
         signals |-> IF GetInt(pending, stationId) - 1 = 0
                     THEN <<"stationDetailsChanged">> ELSE << >>]

\* the success branch of processDataReply
DataReplySuccess(details, pending, sensorId) ==
    LET obj          == toObject(DataOf(sensorId))
        key          == toString(JGet(obj, "key"))
        measurements == Measurements(toArray(JGet(obj, "values")))
        stationId    == GetInt(details, "stationId")
        sensors      == AttachMeasurements(ToList(details, "sensors"), 1, key, measurements)
    IN  [details |-> Put(details, "sensors", QList(sensors)),
         pending |-> Decrement(pending, stationId),
         signals |-> <<"stationDetailsChanged">>]

processDataReply(req, ok) ==
    /\ req \in InFlight("data")
    /\ network' = network (-) SetToBag({req})
    /\ LET out == IF ok THEN DataReplySuccess(m_stationDetails, m_pendingRequests, req.arg)
                  ELSE SubReplyError(m_stationDetails, m_pendingRequests)
       IN  /\ m_stationDetails' = out.details
           /\ m_pendingRequests' = out.pending
           /\ signals' = IF ok THEN out.signals ELSE errorOccurred(req) \o out.signals
    /\ failures' = IF ok THEN failures ELSE failures + 1
    /\ last' = Step("processDataReply", req.arg, ok)
    /\ UNCHANGED <<returned, m_result, m_stations, m_userLocation, m_userAddress, m_history,
                   m_isFromHistory, file, sent, log, clock>>

IndexMap(obj) ==
    LET stIndex == toObject(JGet(obj, "stIndexLevel"))
    IN  [ calcDate       |-> toString(JGet(obj, "stCalcDate")),
          indexLevel     |-> toInt(JGet(stIndex, "id")),
          indexLevelName |-> toString(JGet(stIndex, "indexLevelName")) ]

\* the success branch of processIndexReply
IndexReplySuccess(details, pending, stationId) ==
    LET index == IndexMap(toObject(IndexOf(stationId)))
        new   == Put(details, "airQualityIndex", index)
    IN  [details |-> new,
         pending |-> Decrement(pending, GetInt(new, "stationId")),
         signals |-> <<"stationDetailsChanged">>]

processIndexReply(req, ok) ==
    /\ req \in InFlight("index")
    /\ network' = network (-) SetToBag({req})
    /\ LET out == IF ok THEN IndexReplySuccess(m_stationDetails, m_pendingRequests, req.arg)
                  ELSE SubReplyError(m_stationDetails, m_pendingRequests)
       IN  /\ m_stationDetails' = out.details
           /\ m_pendingRequests' = out.pending
           /\ signals' = IF ok THEN out.signals ELSE errorOccurred(req) \o out.signals
    /\ failures' = IF ok THEN failures ELSE failures + 1
    /\ last' = Step("processIndexReply", req.arg, ok)
    /\ UNCHANGED <<returned, m_result, m_stations, m_userLocation, m_userAddress, m_history,
                   m_isFromHistory, file, sent, log, clock>>

-----------------------------------------------------------------------------
(* The history and history.json.                                           *)

\* QDateTime::toString(Qt::ISODate) of the clock
IsoDate(t) == "2025-04-20T12:00:" \o Digits(t, 2)

JsonNull == [null |-> TRUE]

\* QJsonArray::fromVariantList followed by QJsonDocument::toVariant: what an
\* entry written to history.json reads back as. An invalid QVariant is
\* written as null and read as a null QVariant; the rest keeps its value.
JsonEntry(entry) ==
    [k \in DOMAIN entry |->
        IF k \in {"airQualityIndex", "sensors"} /\ "invalid" \in DOMAIN entry[k]
        THEN JsonNull ELSE entry[k]]

JsonList(history) == [i \in 1..Len(history) |-> JsonEntry(history[i])]

\* file.open(ReadOnly), QJsonDocument::fromJson, toVariant().toList()
ReadHistory(f) == IF f.exists THEN f.content ELSE << >>

\* the write left out when the list is empty
WriteHistoryUnlessEmpty(history) ==
    IF history = << >> THEN file ELSE [exists |-> TRUE, content |-> JsonList(history)]

\* file.open(WriteOnly), file.write(doc.toJson())
WriteHistory(history) == [exists |-> TRUE, content |-> JsonList(history)]

\* a return that tells of a change of the history
ReturnNotifying(op) ==
    /\ signals' = <<"historyChanged">>
    /\ last' = Step(op, 0 - 1, FALSE)
    /\ UNCHANGED <<returned, m_result, m_stations, m_userLocation, m_userAddress,
                   m_stationDetails, m_history, m_isFromHistory, m_pendingRequests,
                   file, network, sent, log, failures, clock>>

\* the early return of a slot: nothing is assigned, nothing is emitted
Return(op) ==
    /\ signals' = << >>
    /\ last' = Step(op, 0 - 1, FALSE)
    /\ UNCHANGED <<returned, m_result, m_stations, m_userLocation, m_userAddress,
                   m_stationDetails, m_history, m_isFromHistory, m_pendingRequests,
                   file, network, sent, log, failures, clock>>

\* the new entry put behind the others
PrependAtBack(entry, history) == history \o <<entry>>

\* history.prepend(historyEntry)
Prepend(entry, history) == <<entry>> \o history

\* the position in the list of the first station with this id, 0 if none
FirstWithId(stations, stationId) ==
    IF \E i \in 1..Len(stations) : GetInt(stations[i], "id") = stationId
    THEN CHOOSE i \in 1..Len(stations) :
            /\ GetInt(stations[i], "id") = stationId
            /\ \A j \in 1..(i - 1) : GetInt(stations[j], "id") # stationId
    ELSE 0

HistoryEntry(station, details, now) ==
    Put(Put(Put(station, "airQualityIndex", details["airQualityIndex"]),
            "sensors", details["sensors"]),
        "timestamp", <<IsoDate(now)>>)

saveStationToHistory(stationId, now) ==
    LET i == FirstWithId(m_stations, stationId)
    IN  IF i = 0 \/ GetBool(m_stations[i], "savedToHistory")
        THEN Return("saveStationToHistory")
        ELSE LET details == Touch(Touch(m_stationDetails, "airQualityIndex"), "sensors")
                 entry   == HistoryEntry(m_stations[i], details, now)
                 history == Prepend(entry, ReadHistory(file))
             IN  /\ m_stationDetails' = details
                 /\ file' = WriteHistory(history)
                 /\ m_history' = history
                 /\ m_stations' = [m_stations EXCEPT ![i] = Put(@, "savedToHistory", TRUE)]
                 /\ clock' = now
                 /\ signals' = <<"historyChanged", "stationsChanged">>
                 /\ last' = Step("saveStationToHistory", stationId, TRUE)
                 /\ UNCHANGED <<returned, m_result, m_userLocation, m_userAddress, m_isFromHistory,
                                m_pendingRequests, network, sent, log, failures>>

loadHistory ==
    /\ m_history' = IF file.exists THEN ReadHistory(file) ELSE m_history
    /\ signals' = <<"historyChanged">>
    /\ last' = Step("loadHistory", 0, file.exists)
    /\ UNCHANGED <<returned, m_result, m_stations, m_userLocation, m_userAddress, m_stationDetails,
                   m_isFromHistory, m_pendingRequests, file, network, sent, log, failures, clock>>

displayStationFromHistory(index) ==
    IF index < 0 \/ index >= Len(m_history)
    THEN Return("displayStationFromHistory")
    ELSE LET station == Put(m_history[index + 1], "savedToHistory", TRUE)
         IN  /\ m_stations' = <<station>>
             /\ m_userLocation' = EmptyMap
             /\ m_userAddress' = << >>
             /\ m_stationDetails' = Put(station, "stationId", GetInt(station, "id"))
             /\ m_isFromHistory' = TRUE
             /\ signals' = <<"userLocationChanged", "userAddressChanged",
                             "stationDetailsChanged", "isFromHistoryChanged",
                             "stationsChanged">>
             /\ last' = Step("displayStationFromHistory", index, TRUE)
             /\ UNCHANGED <<returned, m_result, m_history, m_pendingRequests, file, network, sent,
                            log, failures, clock>>

\* the removal of the entry before the one asked for
RemoveAtBefore(history, index) ==
    [i \in 1..(Len(history) - 1) |-> IF i < index THEN history[i] ELSE history[i + 1]]

RemoveAt(history, index) ==
    [i \in 1..(Len(history) - 1) |-> IF i <= index THEN history[i] ELSE history[i + 1]]

removeStationFromHistory(index) ==
    IF index < 0 \/ index >= Len(m_history)
    THEN Return("removeStationFromHistory")
    ELSE /\ m_history' = RemoveAt(m_history, index)
         /\ file' = WriteHistory(RemoveAt(m_history, index))
         /\ signals' = <<"historyChanged">>
         /\ last' = Step("removeStationFromHistory", index, TRUE)
         /\ UNCHANGED <<returned, m_result, m_stations, m_userLocation, m_userAddress,
                        m_stationDetails, m_isFromHistory, m_pendingRequests, network,
                        sent, log, failures, clock>>

clearHistory ==
    /\ m_history' = << >>
    /\ file' = WriteHistory(<< >>)
    /\ signals' = <<"historyChanged">>
    /\ last' = Step("clearHistory", 0, TRUE)
    /\ UNCHANGED <<returned, m_result, m_stations, m_userLocation, m_userAddress, m_stationDetails,
                   m_isFromHistory, m_pendingRequests, network, sent, log, failures, clock>>

-----------------------------------------------------------------------------
(* getStationsForCity.                                                     *)

\* the lower-case form of the words history entries and queries are made of
LowerCase ==
    [ Warszawa |-> "warszawa", WARSZAWA |-> "warszawa", warszawa |-> "warszawa",
      Krakow |-> "krakow", krakow |-> "krakow", KRAKOW |-> "krakow",
      Zielona |-> "zielona", Gora |-> "gora", Poznan |-> "poznan" ]

\* QString::toLower
toLower(s) ==
    [i \in DOMAIN s |-> IF s[i] \in DOMAIN LowerCase THEN LowerCase[s[i]] ELSE s[i]]

\* the strings that are the ISO form of an instant
IsoDates == {<<IsoDate(t), t>> : t \in 0..59}

\* QDateTime::fromString(s, Qt::ISODate): an invalid QDateTime unless the
\* string has the ISO form
fromString(s) ==
    IF Len(s) = 1 /\ \E d \in IsoDates : d[1] = s[1]
    THEN [valid |-> TRUE, secs |-> (CHOOSE d \in IsoDates : d[1] = s[1])[2]]
    ELSE [valid |-> FALSE, secs |-> 0]

\* the comparison the other way round
AfterReversed(a, b) == b.valid /\ (~a.valid \/ b.secs > a.secs)

\* a > b on QDateTime: an invalid QDateTime is before every valid one
After(a, b) == a.valid /\ (~b.valid \/ a.secs > b.secs)

\* the loop over m_history: latestStations maps a station id to the entry kept
\* for it. The keys are read through the non-const operator[], on the copy
\* of the entry and on the entry kept.
RECURSIVE LatestScan(_, _, _)
LatestScan(history, city, latestStations) ==
    IF history = << >> THEN latestStations
    ELSE LET entry == Head(history)
             rest  == Tail(history)
         IN  IF toLower(GetStr(entry, "cityName")) = toLower(city)
             THEN LET station   == Touch(Touch(entry, "cityName"), "id")
                      stationId == GetInt(entry, "id")
                  IN  IF stationId \notin DOMAIN latestStations
                      THEN LatestScan(rest, city, Put(latestStations, stationId, station))
                      ELSE LET existing == latestStations[stationId]
                               currentTimestamp  == fromString(GetStr(entry, "timestamp"))
                               existingTimestamp == fromString(GetStr(existing, "timestamp"))
                           IN  LatestScan(rest, city,
                                   Put(latestStations, stationId,
                                       IF After(currentTimestamp, existingTimestamp)
                                       THEN Touch(station, "timestamp")
                                       ELSE Touch(existing, "timestamp")))
             ELSE LatestScan(rest, city, latestStations)

\* QMap::values(): the values in ascending order of their keys
RECURSIVE Values(_)
Values(map) ==
    IF DOMAIN map = {} THEN << >>
    ELSE LET k == CHOOSE x \in DOMAIN map : \A y \in DOMAIN map : x <= y
         IN  <<map[k]>> \o Values([q \in (DOMAIN map) \ {k} |-> map[q]])

getStationsForCity(city) ==
    /\ returned' = [of |-> "getStationsForCity", arg |-> city,
                    value |-> Values(LatestScan(m_history, city, EmptyMap))]
    /\ signals' = << >>
    /\ last' = Step("getStationsForCity", 0, TRUE)
    /\ UNCHANGED <<m_result, m_stations, m_userLocation, m_userAddress, m_stationDetails,
                   m_history, m_isFromHistory, m_pendingRequests, file, network, sent,
                   log, failures, clock>>

-----------------------------------------------------------------------------
(* Construction, and the specifications.                                   *)

\* an entry saved by an earlier run of the program: station 2, with its
\* index and without sensors
OldEntry ==
    JsonEntry(HistoryEntry(ParseStations(CatalogFull)[2],
                           [airQualityIndex |-> IndexMap(toObject(IndexOf(2))),
                            sensors |-> Invalid], 0))

\* what history.json may hold when the program starts
InitialFiles ==
    { [exists |-> FALSE, content |-> << >>],
      [exists |-> TRUE, content |-> <<OldEntry>>] }

\* no call has returned a value yet
NoValue == [of |-> "", arg |-> << >>, value |-> << >>]

\* the constructor, started with one of the given files as history.json:
\* empty state, then loadHistory()
Start(files) ==
    /\ file \in files
    /\ m_result = << >>
    /\ m_stations = << >>
    /\ m_userLocation = EmptyMap
    /\ m_userAddress = << >>
    /\ m_stationDetails = EmptyMap
    /\ m_history = ReadHistory(file)
    /\ m_isFromHistory = FALSE
    /\ m_pendingRequests = EmptyMap
    /\ network = EmptyBag
    /\ signals = <<"historyChanged">>
    /\ last = Step("MainWindow", 0, TRUE)
    /\ sent = [stations |-> 0, sensors |-> 0, data |-> 0, index |-> 0]
    /\ log = << >>
    /\ failures = 0
    /\ clock = 0
    /\ returned = NoValue

Init == Start(InitialFiles)

\* the indices the history slots are called with, out of range included
Indices == (0 - 1)..MaxHistory

SearchAll == Cardinality(Searches) < MaxSearches /\ fetchAllStations

SearchByCity ==
    /\ Cardinality(Searches) < MaxSearches
    /\ \E city \in Cities : fetchStationsByCity(city)

SearchNearest ==
    /\ Cardinality(Searches) < MaxSearches
    /\ \E location \in Addresses : \E reply \in GeoReplies(location) :
          fetchNearestStation(location, reply)

StationsReply ==
    \E req \in InFlight("stations") : \E ok \in BOOLEAN : \E b \in DOMAIN Catalogs :
        /\ (~ok => b = 1 /\ failures < MaxFailures)
        /\ processStationsReply(req, ok, b)

OpenDetails ==
    /\ sent.sensors < MaxFetches
    /\ \E stationId \in OverlapIds : fetchStationDetails(stationId)

\* the one detail fetch of a run that has no other
OpenDetailsOnce ==
    /\ sent.sensors = 0
    /\ \E stationId \in StationIds : fetchStationDetails(stationId)

SensorsReplyOk == \E req \in InFlight("sensors") : processSensorsReply(req, TRUE)

DataReplyOk == \E req \in InFlight("data") : processDataReply(req, TRUE)

IndexReplyOk == \E req \in InFlight("index") : processIndexReply(req, TRUE)

SensorsReply ==
    \E req \in InFlight("sensors") : \E ok \in BOOLEAN :
        (ok \/ failures < MaxFailures) /\ processSensorsReply(req, ok)

DataReply ==
    \E req \in InFlight("data") : \E ok \in BOOLEAN :
        (ok \/ failures < MaxFailures) /\ processDataReply(req, ok)

IndexReply ==
    \E req \in InFlight("index") : \E ok \in BOOLEAN :
        (ok \/ failures < MaxFailures) /\ processIndexReply(req, ok)

SaveToHistory ==
    /\ Len(m_history) < MaxHistory
    /\ Len(ReadHistory(file)) < MaxHistory
    /\ \E stationId \in StationIds : \E now \in {clock, clock + 1} :
          /\ now <= MaxHistory
          /\ saveStationToHistory(stationId, now)

ShowFromHistory == \E index \in Indices : displayStationFromHistory(index)

RemoveFromHistory == \E index \in Indices : removeStationFromHistory(index)

ClearHistory == clearHistory

LoadHistory == loadHistory

\* the searches and their replies, with the history shown from time to time
NextSearch ==
    \/ SearchAll
    \/ SearchByCity
    \/ SearchNearest
    \/ StationsReply
    \/ ShowFromHistory

SpecSearch == Init /\ [][NextSearch]_vars

\* the detail fetches and their replies
NextDetail ==
    \/ OpenDetails
    \/ SensorsReply
    \/ DataReply
    \/ IndexReply

\* the detail fetch reads neither history.json nor m_history: the program
\* starts without a history file
InitDetail == Init /\ ~file.exists

SpecDetail == InitDetail /\ [][NextDetail]_vars

\* a single detail fetch whose replies all succeed, in any order
NextSingle ==
    \/ OpenDetailsOnce
    \/ SensorsReplyOk
    \/ DataReplyOk
    \/ IndexReplyOk

SpecSingle == Init /\ [][NextSingle]_vars

\* the replies of one detail fetch, each a success or a transport failure
SensorsReplyAny ==
    \E req \in InFlight("sensors") : \E ok \in BOOLEAN : processSensorsReply(req, ok)

DataReplyAny ==
    \E req \in InFlight("data") : \E ok \in BOOLEAN : processDataReply(req, ok)

IndexReplyAny ==
    \E req \in InFlight("index") : \E ok \in BOOLEAN : processIndexReply(req, ok)

\* a single detail fetch, any of whose replies may fail, in any order
NextOnce ==
    \/ OpenDetailsOnce
    \/ SensorsReplyAny
    \/ DataReplyAny
    \/ IndexReplyAny

SpecOnce == Init /\ [][NextOnce]_vars

\* no request is waiting for its reply
Quiet == network = EmptyBag

\* the one all-stations search of a run that has no other
ListStations == sent.stations = 0 /\ fetchAllStations

StationsReplyOk == \E req \in InFlight("stations") : processStationsReply(req, TRUE, 1)

\* the one detail fetch of a run, made while nothing else is under way
OpenListed ==
    /\ Quiet /\ sent.sensors = 0
    /\ \E stationId \in OverlapIds : fetchStationDetails(stationId)

\* a save at least a second after the previous one
SaveLater ==
    /\ Len(m_history) < MaxHistory
    /\ Len(ReadHistory(file)) < MaxHistory
    /\ clock < MaxHistory
    /\ \E stationId \in StationIds : saveStationToHistory(stationId, clock + 1)

\* the history slots, called while no reply is awaited, on the list of all
\* stations or on a station shown from the history, with or without a
\* detail record; nothing but the program touches history.json
NextHistory ==
    \/ ListStations
    \/ StationsReplyOk
    \/ OpenListed
    \/ SensorsReplyOk
    \/ DataReplyOk
    \/ IndexReplyOk
    \/ Quiet /\ SaveLater
    \/ Quiet /\ ShowFromHistory
    \/ Quiet /\ RemoveFromHistory
    \/ Quiet /\ ClearHistory
    \/ Quiet /\ LoadHistory

SpecHistory == Init /\ [][NextHistory]_vars

\* QFile::remove("history.json"), by whoever cleans up the working directory
RemoveFile ==
    /\ file.exists
    /\ file' = [exists |-> FALSE, content |-> << >>]
    /\ signals' = << >>
    /\ last' = Step("QFile::remove", 0, TRUE)
    /\ UNCHANGED <<returned, m_result, m_stations, m_userLocation, m_userAddress,
                   m_stationDetails, m_history, m_isFromHistory, m_pendingRequests,
                   network, sent, log, failures, clock>>

\* the history slots on the list of all stations, with a history.json that
\* may be removed while the program runs
NextStore ==
    \/ ListStations
    \/ StationsReplyOk
    \/ SaveToHistory
    \/ RemoveFromHistory
    \/ ClearHistory
    \/ LoadHistory
    \/ RemoveFile

SpecStore == Init /\ [][NextStore]_vars

\* the points calculateDistance is called with
Points == {<<t[1], t[2]>> : t \in DistanceTable}

Distance ==
    \E a \in Points : \E b \in Points :
        /\ returned' = [of |-> "calculateDistance", arg |-> <<a, b>>,
                        value |-> calculateDistance(a[1], a[2], b[1], b[2])]
        /\ signals' = << >>
        /\ last' = Step("calculateDistance", 0, TRUE)
        /\ UNCHANGED <<m_result, m_stations, m_userLocation, m_userAddress, m_stationDetails,
                       m_history, m_isFromHistory, m_pendingRequests, file, network, sent,
                       log, failures, clock>>

\* calculateDistance called on every pair of points
SpecDistance == Init /\ [][Distance]_vars

\* the entries of a history.json written as the test writes it: two station
\* ids, city names in several spellings, two instants and a timestamp that
\* is no date
StoredEntries ==
    { [id |-> id, cityName |-> city, name |-> <<"Stacja">> \o city, timestamp |-> stamp] :
        id \in {1, 2},
        city \in {<<"Warszawa">>, <<"WARSZAWA">>, <<"Krakow">>},
        stamp \in {<<IsoDate(1)>>, <<IsoDate(2)>>, <<"wczoraj">>} }

RECURSIVE ListsOf(_, _)
ListsOf(set, n) ==
    IF n = 0 THEN {<< >>}
    ELSE LET shorter == ListsOf(set, n - 1)
         IN  shorter \cup {<<x>> \o l : x \in set, l \in {k \in shorter : Len(k) = n - 1}}

\* history.json as the queries find it
QueryFiles == {[exists |-> TRUE, content |-> h] : h \in ListsOf(StoredEntries, MaxEntries)}

\* the cities getStationsForCity is called with
QueryCities == {<<"Warszawa">>, <<"krakow">>, <<"Poznan">>}

StationsForCity == \E city \in QueryCities : getStationsForCity(city)

InitQuery == Start(QueryFiles)

\* the history is loaded at construction and queried
SpecQuery == InitQuery /\ [][StationsForCity]_vars

-----------------------------------------------------------------------------
(* What the searches and the catalogue reply guarantee.                    *)

Emitted(sig) == \E i \in DOMAIN signals : signals[i] = sig

Emissions(sig) == Cardinality({i \in DOMAIN signals : signals[i] = sig})

IsSearch(entry) == entry.op # "processStationsReply"

\* every request issued before journal position n has been answered
Settled(n) ==
    Cardinality({i \in 1..(n - 1) : IsSearch(log[i]) /\ log[i].issued})
        = Cardinality({i \in 1..(n - 1) : ~IsSearch(log[i])})

\* the list and message the search of a journal entry asks for, by its mode
ModeOutcome(entry, stations) ==
    CASE entry.op = "fetchAllStations" -> [stations |-> stations, result |-> << >>]
      [] entry.op = "fetchStationsByCity" ->
            LET filtered == FilterByCity(stations, entry.input)
            IN  [stations |-> filtered,
                 result   |-> IF filtered = << >> THEN NoStationsIn(entry.input) ELSE << >>]
      [] OTHER -> SelectStations(entry.query, stations)

\* C2: two searches issued back to back, then their two successful replies
\* in the order of issue: each reply is filtered by the search that issued
\* it, so the list and the message are those the second search asks for.
C2_SecondSearchDecides ==
    ( /\ Len(log) = 4
      /\ IsSearch(log[1]) /\ log[1].issued
      /\ IsSearch(log[2]) /\ log[2].issued
      /\ ~IsSearch(log[3]) /\ log[3].ok /\ log[3].query = log[1].query
      /\ ~IsSearch(log[4]) /\ log[4].ok /\ log[4].query = log[2].query )
    => LET wanted == ModeOutcome(log[2], ParseStations(Catalogs[log[4].body]))
       IN  m_stations = wanted.stations /\ m_result = wanted.result

\* C3: a search by city c answered by its own successful reply leaves
\* exactly the parsed stations whose cityName is c, in reply order; when
\* there is none the message is "no stations in c" and no networkError is
\* emitted.
C3_CityFilter ==
    LET n == Len(log)
    IN  ( /\ n >= 2
          /\ log[n - 1].op = "fetchStationsByCity"
          /\ Settled(n - 1)
          /\ ~IsSearch(log[n]) /\ log[n].ok )
        => LET c        == log[n - 1].input
               filtered == FilterByCity(ParseStations(Catalogs[log[n].body]), c)
           IN  /\ m_stations = filtered
               /\ filtered = << >> => m_result = NoStationsIn(c)
               /\ ~Emitted("networkError")

\* C4: right after any search returns, found or not, the user coordinate
\* and address are empty or the search's own, and the from-history flag is
\* false.
C4_SearchResetsUserState ==
    (last.op \in {"fetchAllStations", "fetchStationsByCity", "fetchNearestStation"})
    => LET entry == log[Len(log)]
       IN  /\ IF entry.op = "fetchNearestStation" /\ entry.issued
              THEN m_userAddress = entry.input /\ DOMAIN m_userLocation = {"lat", "lon"}
              ELSE m_userAddress = << >> /\ m_userLocation = EmptyMap
           /\ m_isFromHistory = FALSE

\* C5: a nearest search whose geocoding finds nothing sets the "location
\* not found" message, issues no catalogue request and does not emit
\* networkError.
C5_NotFoundIsNoTransportError ==
    [][ ( /\ Len(log') = Len(log) + 1
          /\ last'.op = "fetchNearestStation"
          /\ ~last'.ok )
        => /\ m_result' = LocationNotFound(log'[Len(log')].input)
           /\ network' = network
           /\ sent' = sent
           /\ ~Emitted("networkError")' ]_vars

\* C10: a failed catalogue reply, in whichever mode the search was issued,
\* leaves the list empty and the message "no connection", emits
\* networkError and applies no mode filter.
C10_CatalogFailure ==
    (last.op = "processStationsReply" /\ ~last.ok)
    => /\ m_stations = << >>
       /\ m_result = NoConnection
       /\ Emitted("networkError")
       /\ ~Emitted("stationsChanged")

\* a failed catalogue reply of a nearest search, after an earlier reply had
\* filled the list
C10_Witness ==
    /\ Len(log) = 4
    /\ log[1].op = "fetchAllStations"
    /\ ~IsSearch(log[2]) /\ log[2].ok /\ log[2].body = 1
    /\ log[3].op = "fetchNearestStation" /\ log[3].issued
    /\ last.op = "processStationsReply" /\ ~last.ok
    /\ m_stations = << >>

-----------------------------------------------------------------------------
(* What the detail fetch guarantees.                                       *)

SubReplies == {"processSensorsReply", "processDataReply", "processIndexReply"}

\* the series the server holds for a sensor id, as processDataReply stores it
SeriesOf(sensorId) == Measurements(toArray(JGet(toObject(DataOf(sensorId)), "values")))

\* the requests of the detail fetches whose reply has not been processed
Outstanding == BagCardinality(network)

\* the position of the first sensor of a list with the given paramFormula, 0
\* when there is none
FirstWithFormula(sensors, key) ==
    IF \E i \in DOMAIN sensors : GetStr(sensors[i], "paramFormula") = key
    THEN CHOOSE i \in DOMAIN sensors :
            /\ GetStr(sensors[i], "paramFormula") = key
            /\ \A j \in 1..(i - 1) : GetStr(sensors[j], "paramFormula") # key
    ELSE 0

\* C1: a single detail fetch of station s with n sensors whose replies all
\* succeed: once every reply has been processed, n + 2 requests have been
\* issued (1 sensor list, n series, 1 index), the record has stationId s,
\* each of the n sensors carries the series requested for it, and the index
\* is set.
C1_SingleFetchComplete ==
    \A s \in DOMAIN m_pendingRequests :
        (Outstanding = 0)
        => LET raw     == SensorsOf(s)
               n       == Len(raw)
               sensors == ToList(m_stationDetails, "sensors")
           IN  /\ sent.sensors = 1 /\ sent.data = n /\ sent.index = 1
               /\ GetInt(m_stationDetails, "stationId") = s
               /\ Len(sensors) = n
               /\ \A i \in 1..n :
                     /\ i \in DOMAIN sensors
                     /\ GetInt(sensors[i], "id") = SensorMap(toObject(raw[i])).id
                     /\ "measurements" \in DOMAIN sensors[i]
                     /\ ToList(sensors[i], "measurements")
                            = SeriesOf(SensorMap(toObject(raw[i])).id)
               /\ "airQualityIndex" \in DOMAIN m_stationDetails
               /\ m_stationDetails["airQualityIndex"] = IndexMap(toObject(IndexOf(s)))

\* C6: every failed reply (catalogue, sensor list, series or index) emits
\* networkError exactly once.
C6_OneErrorPerFailure ==
    (last.op \in SubReplies \cup {"processStationsReply"} /\ ~last.ok)
    => Emissions("networkError") = 1

C8_PendingCountsOutstanding ==
    \A s \in DOMAIN m_pendingRequests :
        /\ m_pendingRequests[s] = Outstanding
        /\ last.op = "fetchStationDetails" => m_pendingRequests[s] = 2
        /\ Outstanding > 0 => m_pendingRequests[s] # 0
        /\ Outstanding = 0 => m_pendingRequests[s] = 0

\* the sensor list of a station with three sensors has just been stored:
\* three series and the index are outstanding
C8_Witness ==
    /\ last.op = "processSensorsReply" /\ last.ok
    /\ Len(ToList(m_stationDetails, "sensors")) = 3
    /\ GetInt(m_pendingRequests, last.id) = 4
    /\ Outstanding = 4

-----------------------------------------------------------------------------
(* What the mode filters of a successful catalogue reply guarantee.        *)

\* the last step is the successful reply to the search of the given kind,
\* which was the only one outstanding
OwnReplyOf(op) ==
    LET n == Len(log)
    IN  /\ n >= 2
        /\ log[n - 1].op = op
        /\ log[n - 1].issued
        /\ Settled(n - 1)
        /\ ~IsSearch(log[n]) /\ log[n].ok
        /\ last.op = "processStationsReply"

\* C11: after a nearest search and its successful reply, the list is the
\* single station of the reply with the smallest distance to the query
\* point (the coordinate the address was resolved to), the first one in reply
\* order on a tie, with that distance attached and reported in the message.
C11_NearestToQueryPoint ==
    (OwnReplyOf("fetchNearestStation") /\ DOMAIN m_userLocation = {"lat", "lon"})
    => LET stations == ParseStations(Catalogs[log[Len(log)].body])
           dist(i)  == calculateDistance(m_userLocation["lat"], m_userLocation["lon"],
                                         stations[i].lat, stations[i].lon)
       IN  stations # << >> =>
             \E i \in DOMAIN stations :
                /\ \A j \in DOMAIN stations : dist(j) >= dist(i)
                /\ \A j \in 1..(i - 1) : dist(j) > dist(i)
                /\ m_stations = << Put(stations[i], "dist", dist(i)) >>
                /\ m_result = NearestMsg(stations[i], dist(i))

\* the record has the field, and it is not null
Present(record, field) ==
    /\ "obj" \in DOMAIN record
    /\ field \in DOMAIN record.obj
    /\ "null" \notin DOMAIN record.obj[field]

\* the record's field is a string that reads as a decimal number
Parseable(record, field) ==
    /\ "str" \in DOMAIN record.obj[field]
    /\ \E v \in Doubles : record.obj[field].str = <<Dec(v)>>

\* the record is one the station list shows
Listed(record) ==
    /\ Present(record, "id") /\ Present(record, "gegrLat") /\ Present(record, "gegrLon")
    /\ Parseable(record, "gegrLat") /\ Parseable(record, "gegrLon")

\* C12: after an all-stations search and its successful reply, the list is
\* the reply's records whose id, latitude and longitude are present and not
\* null and whose coordinates parse as decimal strings, in reply order; the
\* other records are dropped and the parse goes on, so every listed station
\* has a latitude and a longitude.
C12_AllModeKeepsValidRecords ==
    OwnReplyOf("fetchAllStations")
    => LET kept == SelectSeq(Catalogs[log[Len(log)].body], Listed)
       IN  /\ m_stations = [i \in 1..Len(kept) |-> StationMap(kept[i].obj)]
           /\ \A i \in DOMAIN m_stations : {"lat", "lon"} \subseteq DOMAIN m_stations[i]
           /\ Emitted("stationsChanged") /\ ~Emitted("networkError")

\* the reply with valid records between dropped ones has been parsed
C12_Witness ==
    /\ OwnReplyOf("fetchAllStations")
    /\ Len(m_stations) = 4
    /\ Len(Catalogs[log[Len(log)].body]) = 6

-----------------------------------------------------------------------------
(* What the history operations guarantee.                                  *)

\* the positions of the history entries of the city, ignoring case
Matching(city) ==
    {i \in DOMAIN m_history : toLower(m_history[i].cityName) = toLower(city)}

\* the timestamp of the entry at position i is at least as late as the one
\* at position j; a timestamp that is no date is earlier than every date
NotEarlier(i, j) ==
    LET a == m_history[i].timestamp
        b == m_history[j].timestamp
        IsDate(x) == \E t \in 0..59 : x = <<IsoDate(t)>>
        Instant(x) == CHOOSE t \in 0..59 : x = <<IsoDate(t)>>
    IN  \/ ~IsDate(b)
        \/ IsDate(a) /\ Instant(a) >= Instant(b)

\* C13: getStationsForCity(c) returns one entry for each station id that has
\* a history entry whose cityName is c ignoring case, and nothing else; the
\* entry returned for an id is a history entry of that id and city whose
\* timestamp is the latest among them, a timestamp that is no date losing
\* against a date; no match gives the empty list; the history is unchanged.
C13_LatestEntryPerStation ==
    returned.of = "getStationsForCity"
    => LET result == returned.value
           hits   == Matching(returned.arg)
       IN  /\ \A i \in hits : \E r \in DOMAIN result : result[r].id = m_history[i].id
           /\ \A r \in DOMAIN result :
                 \E i \in hits :
                    /\ result[r] = m_history[i]
                    /\ \A j \in hits : m_history[j].id = m_history[i].id => NotEarlier(i, j)
           /\ \A r, q \in DOMAIN result : result[r].id = result[q].id => r = q
           /\ (hits = {} => result = << >>)
           /\ m_history = ReadHistory(file)

\* a query that had to choose between an older entry, a newer entry written
\* in another case and an entry without a date, all of one station
C13_Witness ==
    /\ returned.of = "getStationsForCity"
    /\ Len(returned.value) = 1
    /\ \E i, j, k \in Matching(returned.arg) :
          /\ i < j /\ m_history[i].id = m_history[j].id /\ m_history[k].id = m_history[i].id
          /\ m_history[i].cityName # m_history[j].cityName
          /\ m_history[i].timestamp = <<IsoDate(1)>>
          /\ m_history[j].timestamp = <<IsoDate(2)>>
          /\ m_history[k].timestamp = <<"wczoraj">>
          /\ returned.value[1] = m_history[j]

\* the station is in the list, and its first record there is not marked saved
Savable(stationId) ==
    \E i \in DOMAIN m_stations :
       /\ m_stations[i].id = stationId
       /\ \A j \in 1..(i - 1) : m_stations[j].id # stationId
       /\ ~m_stations[i].savedToHistory

\* the record of the station, with the sensors and the index of the detail
\* record (no value where the detail record has none) and the timestamp
Snapshot(stationId, now) ==
    LET station == m_stations[CHOOSE i \in DOMAIN m_stations :
                                 /\ m_stations[i].id = stationId
                                 /\ \A j \in 1..(i - 1) : m_stations[j].id # stationId]
        Detail(k) == IF k \in DOMAIN m_stationDetails THEN m_stationDetails[k] ELSE Invalid
    IN  [k \in (DOMAIN station) \cup {"airQualityIndex", "sensors", "timestamp"} |->
            CASE k = "airQualityIndex" -> Detail(k)
              [] k = "sensors"         -> Detail(k)
              [] k = "timestamp"       -> <<IsoDate(now)>>
              [] OTHER                 -> station[k]]

\* the entry has a value for the sensors and for the index
Complete(entry) == entry.sensors # Invalid /\ entry.airQualityIndex # Invalid

C16_OutOfRangeIndexIsSilent ==
    [][ \A index \in Indices :
          ( /\ index < 0 \/ index >= Len(m_history)
            /\ removeStationFromHistory(index) \/ displayStationFromHistory(index) )
          => /\ signals' = << >>
             /\ UNCHANGED <<m_history, file, m_stations, m_stationDetails, m_userLocation,
                            m_userAddress, m_isFromHistory, m_result, m_pendingRequests>>
      ]_vars

\* an index out of range has been given while a station of the history is
\* shown and the history is not empty
C16_Witness ==
    /\ last.op = "removeStationFromHistory" /\ ~last.ok
    /\ signals = << >>
    /\ m_isFromHistory
    /\ Len(m_history) >= 1
    /\ Len(m_stations) = 1

\* C17: after loadHistory, whenever it is called, the in-memory history is
\* empty if history.json is absent and is the array it holds otherwise, and
\* no error has been reported.
C17_LoadReflectsStore ==
    last.op = "loadHistory"
    => /\ m_history = (IF file.exists THEN file.content ELSE << >>)
       /\ signals = <<"historyChanged">>

-----------------------------------------------------------------------------
(* What calculateDistance guarantees.                                      *)

-----------------------------------------------------------------------------
(* What holds of the detail record across fetches and saves.               *)

\* C19: the pending counter of every station is at least 0 in every
\* reachable state, however the detail fetches and their replies interleave.
C19_PendingNeverNegative ==
    \A stationId \in DOMAIN m_pendingRequests : m_pendingRequests[stationId] >= 0

\* C20: when a station has just been saved, the detail record whose sensors
\* and index went into the entry is the record of that station: its
\* stationId is the id of the saved station.
C20_SavedDetailsBelongToStation ==
    (last.op = "saveStationToHistory" /\ last.ok /\ "stationId" \in DOMAIN m_stationDetails)
    => m_stationDetails.stationId = last.id

-----------------------------------------------------------------------------
(* What the replies of a detail fetch do to the record and the counters.   *)

\* the readings of the reply for a sensor id that carry a value, as the
\* record stores them
KeptReadings(sensorId) ==
    LET raw  == DataOf(sensorId).obj.values.arr
        kept == SelectSeq(raw, LAMBDA r : "null" \notin DOMAIN r.obj.value)
    IN  [i \in 1..Len(kept) |-> [date |-> kept[i].obj.date.str, value |-> kept[i].obj.value.num]]

\* the two records agree on a key: both lack it or both hold the same value
SameAt(a, b, k) ==
    /\ (k \in DOMAIN a) = (k \in DOMAIN b)
    /\ k \in DOMAIN a => a[k] = b[k]

SensorListFailed ==
    /\ sent.sensors = 1
    /\ InFlight("sensors") = {}
    /\ "sensors" \notin DOMAIN m_stationDetails

-----------------------------------------------------------------------------
(* C23: the pending counter gates nothing.                                 *)

\* the counters of two runs that differ from this one in the counter of the
\* station of the detail record: one that has no counter for it, which reads
\* as 0, and one that awaits a last reply for it
OtherPending ==
    {EmptyMap, Put(m_pendingRequests, GetInt(m_stationDetails, "stationId"), 1)}

\* what the success branch of the handler of the last step does to a detail
\* record under a counter
SuccessOf(op, details, pending, id) ==
    IF op = "processDataReply" THEN DataReplySuccess(details, pending, id)
    ELSE IndexReplySuccess(details, pending, id)

\* the result of the reply is in the detail record
Written(op, old, new, id) ==
    IF op = "processIndexReply"
    THEN new["airQualityIndex"] = IndexMap(toObject(IndexOf(id)))
    ELSE LET i == FirstWithFormula(ToList(old, "sensors"), DataOf(id).obj.key.str)
         IN  i # 0 => ToList(new, "sensors")[i]["measurements"] = QList(KeptReadings(id))

-----------------------------------------------------------------------------
(* C24: what fetchStationDetails changes and what it leaves alone.         *)

\* the requests of a kind for an argument that are under way
Awaited(net, kind, arg) ==
    BagCardinality([r \in {q \in BagToSet(net) : q.kind = kind /\ q.arg = arg} |-> net[r]])

\* C24: fetchStationDetails(s) replaces the detail record by one that holds
\* stationId = s and nothing else, sets the pending counter of s to 2 and
\* issues one sensor-list request and one index request for s and no other
\* request; the station list, the outcome message, the user's coordinate and
\* address, the history, its file and the from-history flag stay as they are.
C24_OpenDetailsFrame ==
    [][ ( last'.op = "fetchStationDetails" /\ sent' # sent )
        => LET s == last'.id
           IN  /\ DOMAIN m_stationDetails' = {"stationId"}
               /\ m_stationDetails'["stationId"] = s
               /\ s \in DOMAIN m_pendingRequests'
               /\ m_pendingRequests'[s] = 2
               /\ \A t \in (DOMAIN m_pendingRequests) \ {s} :
                      /\ t \in DOMAIN m_pendingRequests'
                      /\ m_pendingRequests'[t] = m_pendingRequests[t]
               /\ Awaited(network', "sensors", s) = Awaited(network, "sensors", s) + 1
               /\ Awaited(network', "index", s) = Awaited(network, "index", s) + 1
               /\ BagCardinality(network') = BagCardinality(network) + 2
               /\ m_stations' = m_stations
               /\ m_result' = m_result
               /\ m_userLocation' = m_userLocation
               /\ m_userAddress' = m_userAddress
               /\ m_history' = m_history
               /\ file' = file
               /\ m_isFromHistory' = m_isFromHistory ]_vars

\* the details of a station opened on a station shown from the history: the
\* record that held the entry's sensors and index holds the id alone, and
\* the flag, the list and the history are still those of the entry
C24_Witness ==
    /\ last.op = "fetchStationDetails"
    /\ DOMAIN m_stationDetails = {"stationId"}
    /\ m_isFromHistory
    /\ Len(m_stations) = 1
    /\ m_history # << >>
    /\ BagCardinality(network) = 2
    /\ m_pendingRequests[m_stationDetails["stationId"]] = 2

-----------------------------------------------------------------------------
(* C25: the history in memory and the history in history.json.             *)

-----------------------------------------------------------------------------
(* C26: what a save changes in the station list.                           *)

\* the positions of the list that hold a station with this id
PositionsOf(stationId) == {i \in DOMAIN m_stations : m_stations[i].id = stationId}

\* the marks of two station records agree
SameMark(a, b) == a.savedToHistory = b.savedToHistory

\* C26: saveStationToHistory(stationId) changes neither the history in
\* memory, nor history.json, nor the station list, and emits nothing, when no
\* station of the list has that id or when the listed station is already
\* marked savedToHistory; a save that adds an entry leaves that station
\* marked savedToHistory, the record otherwise as it was, and every other
\* station of the list with the mark and the record it had.
C26_SaveFrame ==
    [][ \A stationId \in StationIds :
          saveStationToHistory(stationId, clock + 1)
          => IF ~Savable(stationId)
             THEN /\ m_history' = m_history
                  /\ file' = file
                  /\ m_stations' = m_stations
                  /\ signals' = << >>
             ELSE LET i == CHOOSE p \in PositionsOf(stationId) :
                               \A q \in PositionsOf(stationId) : p <= q
                  IN  /\ Len(m_history') = Len(ReadHistory(file)) + 1
                      /\ Len(m_stations') = Len(m_stations)
                      /\ m_stations'[i].savedToHistory = TRUE
                      /\ \A k \in (DOMAIN m_stations[i]) \ {"savedToHistory"} :
                             m_stations'[i][k] = m_stations[i][k]
                      /\ \A j \in (DOMAIN m_stations) \ {i} :
                             /\ m_stations'[j] = m_stations[j]
                             /\ SameMark(m_stations'[j], m_stations[j]) ]_vars

\* a station of the list of all stations has been saved and marked, the
\* others have kept their marks, and a further save, of that station or of a
\* station that is not in the list, has returned without a change
C26_Witness ==
    /\ last.op = "saveStationToHistory"
    /\ ~last.ok
    /\ signals = << >>
    /\ Len(m_stations) > 2
    /\ m_history # << >>
    /\ \E i \in DOMAIN m_stations :
          /\ m_stations[i].savedToHistory
          /\ m_stations[i].id = m_history[1].id
          /\ \A j \in (DOMAIN m_stations) \ {i} : ~m_stations[j].savedToHistory

-----------------------------------------------------------------------------
(* C27: the saved mark and the history.                                    *)

\* the history holds an entry with this id
InHistory(id) == \E j \in DOMAIN m_history : m_history[j].id = id

\* C27: in every reachable state a station of the station list is marked
\* savedToHistory if and only if the history holds an entry with the id of
\* that station.
C27_MarkedIffInHistory ==
    \A i \in DOMAIN m_stations :
        m_stations[i].savedToHistory <=> InHistory(m_stations[i].id)

-----------------------------------------------------------------------------
(* C28: the view of a station shown from the history.                      *)

\* the list and the detail record are those displayStationFromHistory makes
\* of this entry
ShowsEntry(entry) ==
    /\ m_stations = <<Put(entry, "savedToHistory", TRUE)>>
    /\ "sensors" \in DOMAIN m_stationDetails
    /\ m_stationDetails["sensors"] = entry["sensors"]
    /\ "airQualityIndex" \in DOMAIN m_stationDetails
    /\ m_stationDetails["airQualityIndex"] = entry["airQualityIndex"]

\* C28: whenever the from-history flag is true, the station list is the
\* singleton of the history entry shown and the detail record holds the
\* sensors and the index of that entry, whatever replies of requests issued
\* before it have arrived since. The history does not change in the runs
\* this is checked on, so the entry shown is one of its entries.
C28_FromHistoryView ==
    m_isFromHistory => \E j \in DOMAIN m_history : ShowsEntry(m_history[j])

-----------------------------------------------------------------------------
(* C29: where the elements of the station list come from.                  *)

\* the element of the list is the station made of this record of the reply
ParsedFrom(station, record) ==
    /\ Listed(record)
    /\ \A k \in DOMAIN StationMap(record.obj) :
          k \in DOMAIN station /\ station[k] = StationMap(record.obj)[k]

\* C29: after a successful catalogue reply, in every mode, each element of
\* the station list has an id, a name, a latitude and a longitude and is the
\* station parsed from one of the valid records of that reply.
C29_ListedStationsComeFromReply ==
    (last.op = "processStationsReply" /\ last.ok)
    => \A i \in DOMAIN m_stations :
          /\ {"id", "name", "lat", "lon"} \subseteq DOMAIN m_stations[i]
          /\ \E j \in DOMAIN Catalogs[last.id] :
                ParsedFrom(m_stations[i], Catalogs[last.id][j])
====
